---- MODULE Spec2Model ----
(***************************************************************************)
(* Model of generate-heatmap.mjs: the count aggregation loop of            *)
(* fetchCounts, the colour bucketing of getColorByCount, the calendar grid *)
(* layout of generateHeatmapSVG and the control flow of main.              *)
(*                                                                         *)
(* JavaScript strings are modelled as sequences of one-character strings,  *)
(* so that split, padStart and template formatting are computed and not    *)
(* assumed.                                                                *)
(***************************************************************************)
EXTENDS Integers, Sequences, FiniteSets, TLC

VARIABLES
    pc,              \* position of the running function
    \* ---- generateHeatmapSVG(counts, year)
    year,            \* argument year
    counts,          \* argument counts / the object built by fetchCounts
    daysInMonth,     \* const daysInMonth (line 57), 1-indexed here
    svgWidth,        \* const svgWidth (line 64)
    svgHeight,       \* const svgHeight (line 65)
    globalColIndex,  \* let globalColIndex (line 75)
    month,           \* loop variable of line 76
    firstDayOfWeek,  \* const firstDayOfWeek of the current month (line 77)
    weeksNeeded,     \* const weeksNeeded (line 79)
    actualWeeks,     \* const actualWeeks (line 80)
    week,            \* loop variable of line 88
    weekday,         \* loop variable of line 89
    pad,             \* loop variable of line 104
    cells,           \* the <rect> elements appended to svg so far
    labels,          \* the <text> elements appended to svg so far
    \* ---- fetchCounts aggregation loop
    results,         \* data.results
    idx,             \* number of records the for-of loop has consumed
    \* ---- getColorByCount applied to two inputs
    countA, countB, colorA, colorB,
    \* ---- main
    env,             \* process.env: DATABASE_ID and NOTION_TOKEN
    fetchAttempts, renderCalls, launchAttempts, screenshotAttempts,
    imageWritten,    \* heatmap.png has been written by page.screenshot
    failedStep,      \* the step whose promise rejected, "" while none has
    log,             \* console.log / console.error lines, in order
    exitStatus       \* -1 while running, else the process exit status

renderVars == <<year, daysInMonth, svgWidth, svgHeight, globalColIndex, month,
                firstDayOfWeek, weeksNeeded, actualWeeks, week, weekday, pad,
                cells, labels>>
aggVars == <<results, idx>>
colorVars == <<countA, countB, colorA, colorB>>
mainVars == <<env, fetchAttempts, renderCalls, launchAttempts,
              screenshotAttempts, imageWritten, failedStep, log, exitStatus>>
vars == <<pc, counts, renderVars, aggVars, colorVars, mainVars>>

----------------------------------------------------------------------------
(* Bounds of the model *)

\* the contiguous run of years FirstYear .. FirstYear + YearSpan is rendered
YearSpan == 7
\* getColorByCount is applied to every count in 0 .. MaxCount
MaxCount == 12
\* data.results holds at most MaxRecords records
MaxRecords == 3

----------------------------------------------------------------------------
(* JavaScript primitives used by the program *)

Min(a, b) == IF a <= b THEN a ELSE b

\* a % b of JavaScript: the remainder takes the sign of the dividend
JsRem(a, b) == IF a >= 0 THEN a % b ELSE 0 - ((0 - a) % b)

Digits == <<"0", "1", "2", "3", "4", "5", "6", "7", "8", "9">>

RECURSIVE NatToStr(_)
NatToStr(n) == IF n < 10 THEN <<Digits[n + 1]>>
               ELSE NatToStr(n \div 10) \o <<Digits[(n % 10) + 1]>>

\* String(n) / template interpolation of an integer
ToStr(n) == IF n < 0 THEN <<"-">> \o NatToStr(0 - n) ELSE NatToStr(n)

\* s.padStart(len, fill) for a one-character fill
RECURSIVE PadStart(_, _, _)
PadStart(s, len, fill) == IF Len(s) >= len THEN s
                          ELSE PadStart(<<fill>> \o s, len, fill)

\* s.split(sep) for a one-character separator: the sequence of segments
RECURSIVE Split(_, _)
Split(s, sep) ==
    IF \A i \in 1..Len(s) : s[i] # sep THEN <<s>>
    ELSE LET p == CHOOSE i \in 1..Len(s) :
                      s[i] = sep /\ \A j \in 1..(i - 1) : s[j] # sep
         IN  <<SubSeq(s, 1, p - 1)>> \o Split(SubSeq(s, p + 1, Len(s)), sep)

----------------------------------------------------------------------------
(* new Date(year, month, 1).getDay(), ECMAScript time values in days *)

\* DayFromYear(y) of ECMAScript: day number of 1 January of y, 1970 -> 0
DayFromYear(y) == 365 * (y - 1970) + ((y - 1969) \div 4)
                  - ((y - 1901) \div 100) + ((y - 1601) \div 400)

\* InLeapYear of ECMAScript (the Date object's own rule, not isLeapYear)
DateInLeapYear(y) == (y % 4 = 0 /\ y % 100 # 0) \/ y % 400 = 0

\* days of the year before month m (0-based)
DaysBeforeMonth(y, m) ==
    LET common == <<0, 31, 59, 90, 120, 151, 181, 212, 243, 273, 304, 334>>
    IN  common[m + 1] + (IF m >= 2 /\ DateInLeapYear(y) THEN 1 ELSE 0)

\* the Date constructor maps a year argument 0..99 to 1900 + year
DateFullYear(y) == IF 0 <= y /\ y <= 99 THEN 1900 + y ELSE y

\* new Date(y, m, d).getDay(): 0 = Sunday; day 0 (1 Jan 1970) is a Thursday.
\* Only years whose time value lies inside the ECMAScript range are drawn.
GetDay(y, m, d) ==
    LET fy == DateFullYear(y)
    IN  (DayFromYear(fy) + DaysBeforeMonth(fy, m) + (d - 1) + 4) % 7

----------------------------------------------------------------------------
(* isLeapYear and getColorByCount *)

\* fault for C9: the 400-year rule is left out
isLeapYearNo400(y) == JsRem(y, 4) = 0 /\ JsRem(y, 100) # 0

isLeapYear(y) == (JsRem(y, 4) = 0 /\ JsRem(y, 100) # 0) \/ JsRem(y, 400) = 0

colors == <<"#ebedf0", "#c6e48b", "#7bc96f", "#239a3b", "#196127">>

\* fault for C5: the 2..3 bucket ends before 3
getColorByCountStrict(count) ==
    IF count = 0 THEN colors[1]
    ELSE IF count = 1 THEN colors[2]
    ELSE IF count < 3 THEN colors[3]
    ELSE IF count <= 6 THEN colors[4]
    ELSE colors[5]

getColorByCount(count) ==
    IF count = 0 THEN colors[1]
    ELSE IF count = 1 THEN colors[2]
    ELSE IF count <= 3 THEN colors[3]
    ELSE IF count <= 6 THEN colors[4]
    ELSE colors[5]

----------------------------------------------------------------------------
(* generateHeatmapSVG *)

cellSize == 16
spacing == 4
colWidth == cellSize + spacing
rowHeight == cellSize + spacing
leftMargin == 60
topMargin == 30
totalColumns == 12 * 5

months == <<"Jan", "Feb", "Mar", "Apr", "May", "Jun",
            "Jul", "Aug", "Sep", "Oct", "Nov", "Dec">>
weekdays == <<"S", "M", "T", "W", "T", "F", "S">>

\* [31, isLeapYear(year) ? 29 : 28, 31, ...]
DaysInMonthOf(y) ==
    <<31, IF isLeapYear(y) THEN 29 ELSE 28, 31, 30, 31, 30, 31, 31, 30, 31, 30, 31>>

\* Math.ceil((firstDayOfWeek + totalDays) / 7)
WeeksNeeded(fdow, totalDays) == (fdow + totalDays + 6) \div 7

\* fault for C1: the week count is not clamped
ActualWeeksUnclamped(wn) == wn

\* Math.min(weeksNeeded, 5)
ActualWeeks(wn) == Min(wn, 5)

\* week * 7 + weekday - firstDayOfWeek + 1
DayOfMonth(wk, wd, fdow) == wk * 7 + wd - fdow + 1

\* fault for C4: month and day are not zero-padded
DateStrUnpadded(y, m, d) ==
    ToStr(y) \o <<"-">> \o ToStr(m + 1) \o <<"-">> \o ToStr(d)

\* `${year}-${String(month+1).padStart(2,'0')}-${String(dayOfMonth).padStart(2,'0')}`
DateStr(y, m, d) ==
    ToStr(y) \o <<"-">> \o PadStart(ToStr(m + 1), 2, "0")
             \o <<"-">> \o PadStart(ToStr(d), 2, "0")

\* counts[dateStr] || 0
CountOf(c, key) == IF key \in DOMAIN c /\ c[key] # 0 THEN c[key] ELSE 0

\* the <rect> appended for (week, weekday) of the current month
Rect(c, y, m, d, col, wd) ==
    [month |-> m, day |-> d, col |-> col, row |-> wd,
     x |-> leftMargin + col * colWidth,
     y |-> topMargin + wd * rowHeight,
     width |-> cellSize, height |-> cellSize,
     dateStr |-> DateStr(y, m, d),
     count |-> CountOf(c, DateStr(y, m, d)),
     fill |-> getColorByCount(CountOf(c, DateStr(y, m, d)))]

\* lines 54-75: constants, the <svg> element, the weekday labels
RenderBegin ==
    /\ pc = "render"
    /\ daysInMonth' = DaysInMonthOf(year)
    /\ svgWidth' = leftMargin + totalColumns * colWidth
    /\ svgHeight' = topMargin + 7 * rowHeight
    /\ labels' = {[text |-> weekdays[w + 1], x |-> 10,
                   y |-> topMargin + w * rowHeight + (cellSize \div 2) + 3] :
                  w \in 0..6}
    /\ globalColIndex' = 0
    /\ month' = 0
    /\ pc' = "month"
    /\ UNCHANGED <<year, counts, firstDayOfWeek, weeksNeeded, actualWeeks,
                   week, weekday, pad, cells, aggVars, colorVars, mainVars>>

\* lines 76-86: head of the month loop and the month label
MonthBegin ==
    /\ pc = "month"
    /\ month < 12
    /\ LET fdow == GetDay(year, month, 1)
           wn == WeeksNeeded(fdow, daysInMonth[month + 1])
           aw == ActualWeeks(wn)
           midCol == globalColIndex + (aw \div 2)
       IN  /\ firstDayOfWeek' = fdow
           /\ weeksNeeded' = wn
           /\ actualWeeks' = aw
           /\ labels' = IF aw > 0
                        THEN labels \cup
                             {[text |-> months[month + 1],
                               x |-> leftMargin + midCol * colWidth + (cellSize \div 2),
                               y |-> 16]}
                        ELSE labels
    /\ week' = 0
    /\ pc' = "week"
    /\ UNCHANGED <<year, counts, daysInMonth, svgWidth, svgHeight,
                   globalColIndex, month, weekday, pad, cells,
                   aggVars, colorVars, mainVars>>

\* line 88: week < actualWeeks
WeekBegin ==
    /\ pc = "week"
    /\ week < actualWeeks
    /\ weekday' = 0
    /\ pc' = "weekday"
    /\ UNCHANGED <<year, counts, daysInMonth, svgWidth, svgHeight,
                   globalColIndex, month, firstDayOfWeek, weeksNeeded,
                   actualWeeks, week, pad, cells, labels,
                   aggVars, colorVars, mainVars>>

\* lines 89-100: one iteration of the weekday loop
WeekdayStep ==
    /\ pc = "weekday"
    /\ weekday < 7
    /\ LET dayOfMonth == DayOfMonth(week, weekday, firstDayOfWeek)
       IN  cells' = IF dayOfMonth >= 1 /\ dayOfMonth <= daysInMonth[month + 1]
                    THEN cells \cup {Rect(counts, year, month, dayOfMonth,
                                          globalColIndex, weekday)}
                    ELSE cells
    /\ weekday' = weekday + 1
    /\ UNCHANGED <<pc, year, counts, daysInMonth, svgWidth, svgHeight,
                   globalColIndex, month, firstDayOfWeek, weeksNeeded,
                   actualWeeks, week, pad, labels,
                   aggVars, colorVars, mainVars>>

\* line 101: globalColIndex++ and the week++ of line 88
WeekEnd ==
    /\ pc = "weekday"
    /\ weekday >= 7
    /\ globalColIndex' = globalColIndex + 1
    /\ week' = week + 1
    /\ pc' = "week"
    /\ UNCHANGED <<year, counts, daysInMonth, svgWidth, svgHeight, month,
                   firstDayOfWeek, weeksNeeded, actualWeeks, weekday, pad,
                   cells, labels, aggVars, colorVars, mainVars>>

\* fault for C2: the pad loop starts from 0 instead of actualWeeks
WeeksDonePadFromZero ==
    /\ pc = "week"
    /\ week >= actualWeeks
    /\ pad' = 0
    /\ pc' = "pad"
    /\ UNCHANGED <<year, counts, daysInMonth, svgWidth, svgHeight,
                   globalColIndex, month, firstDayOfWeek, weeksNeeded,
                   actualWeeks, week, weekday, cells, labels,
                   aggVars, colorVars, mainVars>>

\* line 104: let pad = actualWeeks, once the week loop has ended
WeeksDone ==
    /\ pc = "week"
    /\ week >= actualWeeks
    /\ pad' = actualWeeks
    /\ pc' = "pad"
    /\ UNCHANGED <<year, counts, daysInMonth, svgWidth, svgHeight,
                   globalColIndex, month, firstDayOfWeek, weeksNeeded,
                   actualWeeks, week, weekday, cells, labels,
                   aggVars, colorVars, mainVars>>

\* lines 104-106: one blank column
PadStep ==
    /\ pc = "pad"
    /\ pad < 5
    /\ globalColIndex' = globalColIndex + 1
    /\ pad' = pad + 1
    /\ UNCHANGED <<pc, year, counts, daysInMonth, svgWidth, svgHeight, month,
                   firstDayOfWeek, weeksNeeded, actualWeeks, week, weekday,
                   cells, labels, aggVars, colorVars, mainVars>>

\* end of the pad loop and the month++ of line 76
PadDone ==
    /\ pc = "pad"
    /\ pad >= 5
    /\ month' = month + 1
    /\ pc' = "month"
    /\ UNCHANGED <<year, counts, daysInMonth, svgWidth, svgHeight,
                   globalColIndex, firstDayOfWeek, weeksNeeded, actualWeeks,
                   week, weekday, pad, cells, labels,
                   aggVars, colorVars, mainVars>>

\* lines 109-110: the month loop has ended, the scene is returned
RenderReturn ==
    /\ pc = "month"
    /\ month >= 12
    /\ pc' = "rendered"
    /\ UNCHANGED <<counts, renderVars, aggVars, colorVars, mainVars>>

----------------------------------------------------------------------------
(* Inputs of generateHeatmapSVG *)

FirstYear == 2020

\* years of every kind the Date constructor distinguishes: negative, 0..99,
\* below 1000, four digits, five and more digits, century and 400-year marks
SampledYears == {0 - 271820, 0 - 400, 0 - 1, 0, 4, 50, 99, 100, 999, 1000,
                 1600, 1900, 1970, 2000, 2100, 9999, 10000, 275759}

Years == SampledYears \cup (FirstYear..(FirstYear + YearSpan))

Key20240101 == <<"2", "0", "2", "4", "-", "0", "1", "-", "0", "1">>
Key20240305 == <<"2", "0", "2", "4", "-", "0", "3", "-", "0", "5">>
Key20240331 == <<"2", "0", "2", "4", "-", "0", "3", "-", "3", "1">>
Key20241231 == <<"2", "0", "2", "4", "-", "1", "2", "-", "3", "1">>
Key20230615 == <<"2", "0", "2", "3", "-", "0", "6", "-", "1", "5">>
Key20250615 == <<"2", "0", "2", "5", "-", "0", "6", "-", "1", "5">>
KeyUnpadded == <<"2", "0", "2", "4", "-", "1", "-", "1">>
KeyGarbage  == <<"g", "a", "r", "b", "a", "g", "e">>

EmptyCounts == [k \in {} |-> 0]

\* DateCount objects handed to the renderer: empty, and two that agree on
\* the dates of 2024 and differ on other keys
CountMaps ==
    { EmptyCounts,
      (Key20240101 :> 2 @@ Key20240331 :> 4 @@ Key20241231 :> 1
         @@ Key20230615 :> 7 @@ KeyUnpadded :> 3),
      (Key20240101 :> 2 @@ Key20240331 :> 4 @@ Key20241231 :> 1
         @@ Key20250615 :> 9 @@ KeyGarbage :> 1) }

RenderIdle ==
    /\ daysInMonth = <<>> /\ svgWidth = 0 /\ svgHeight = 0
    /\ globalColIndex = 0 /\ month = 0 /\ firstDayOfWeek = 0
    /\ weeksNeeded = 0 /\ actualWeeks = 0 /\ week = 0 /\ weekday = 0
    /\ pad = 0 /\ cells = {} /\ labels = {}

AggIdle == results = <<>> /\ idx = 0

ColorIdle == countA = 0 /\ countB = 0 /\ colorA = "" /\ colorB = ""

MainIdle ==
    /\ env = [DATABASE_ID |-> <<>>, NOTION_TOKEN |-> <<>>]
    /\ fetchAttempts = 0 /\ renderCalls = 0 /\ launchAttempts = 0
    /\ screenshotAttempts = 0 /\ imageWritten = FALSE /\ failedStep = ""
    /\ log = <<>> /\ exitStatus = 0 - 1

\* generateHeatmapSVG(counts, year) is entered with any year and any mapping
InitRender ==
    /\ pc = "render"
    /\ year \in Years
    /\ counts \in CountMaps
    /\ RenderIdle /\ AggIdle /\ ColorIdle /\ MainIdle

NextRender ==
    \/ RenderBegin
    \/ MonthBegin
    \/ WeekBegin
    \/ WeekdayStep
    \/ WeekEnd
    \/ WeeksDone
    \/ PadStep
    \/ PadDone
    \/ RenderReturn

SpecRender == InitRender /\ [][NextRender]_vars

----------------------------------------------------------------------------
(* Reference notions the properties are stated with *)

\* n is a multiple of d
DivisibleBy(n, d) == n % d = 0

\* the Gregorian leap-year rule
GregorianLeap(y) ==
    DivisibleBy(y, 4) /\ (~DivisibleBy(y, 100) \/ DivisibleBy(y, 400))

\* weekday (0 = Sunday) of day d of month m (0-based) of year y in the
\* proleptic Gregorian calendar, by Sakamoto's congruence
TrueWeekday(y, m, d) ==
    LET t == <<0, 3, 2, 5, 0, 3, 5, 1, 4, 6, 2, 4>>
        yy == IF m < 2 THEN y - 1 ELSE y
    IN  (yy + (yy \div 4) - (yy \div 100) + (yy \div 400) + t[m + 1] + d) % 7

\* the least w with 7 * w >= a
CeilDiv7(a) == CHOOSE w \in 0..a : 7 * w >= a /\ 7 * (w - 1) < a

\* fixed-width YYYY-MM-DD of a four-digit year
IsoKey(y, m, d) ==
    <<Digits[(y \div 1000) + 1], Digits[((y \div 100) % 10) + 1],
      Digits[((y \div 10) % 10) + 1], Digits[(y % 10) + 1], "-",
      Digits[((m + 1) \div 10) + 1], Digits[((m + 1) % 10) + 1], "-",
      Digits[(d \div 10) + 1], Digits[(d % 10) + 1]>>

FourDigitYear(y) == 1000 <= y /\ y <= 9999

\* the entry of a DateCount mapping, 0 when the key is absent
EntryOf(c, key) == IF key \in DOMAIN c THEN c[key] ELSE 0

MonthCells(m) == {c \in cells : c.month = m}

\* the region of the page main passes to page.screenshot as clip
ClipWidth == 1200
ClipHeight == 180

----------------------------------------------------------------------------
(* Properties of generateHeatmapSVG, checked under SpecRender *)

\* C1: when the week loop of a month has ended, the month's day cells are
\* exactly the days 1..n, where n = daysInMonth if
\* ceil((firstDayOfWeek + daysInMonth) / 7) <= 5 and
\* n = min(daysInMonth, 35 - firstDayOfWeek) if the week count was clamped.
C1_DayCellCount ==
    pc = "pad" =>
        LET dim == daysInMonth[month + 1]
            wn == CeilDiv7(firstDayOfWeek + dim)
            n == Cardinality(MonthCells(month))
        IN  /\ weeksNeeded = wn
            /\ wn <= 5 => n = dim
            /\ wn > 5 => n = Min(dim, 35 - firstDayOfWeek)
            /\ {c.day : c \in MonthCells(month)} = 1..n

\* C1 witness: a month of six weeks has been rendered and lost trailing days
C1_Witness ==
    /\ pc = "pad"
    /\ weeksNeeded = 6
    /\ Cardinality(MonthCells(month)) < daysInMonth[month + 1]
    /\ Cardinality(MonthCells(month)) = 35 - firstDayOfWeek

\* C2: the column counter is 5*m when month m begins and 60 after month 11,
\* and every day cell has column in 0..59 and row in 0..6.
C2_FiveColumnsPerMonth ==
    /\ pc = "month" => globalColIndex = 5 * month
    /\ pc = "rendered" => globalColIndex = 60
    /\ \A c \in cells : c.col \in 0..59 /\ c.row \in 0..6

\* C2 witness: the scene is complete and one month used only four of its
\* five columns
C2_Witness ==
    /\ pc = "rendered"
    /\ globalColIndex = 60
    /\ \E m \in 0..11 : MonthCells(m) # {} /\
                        \A c \in MonthCells(m) : c.col < 5 * m + 4
    /\ \E c \in cells : c.col = 59

\* C3: firstDayOfWeek is the Gregorian weekday of day 1 of the month in the
\* year rendered, every cell sits in the row of its date's true weekday and
\* in column 5*month + floor((day - 1 + firstDayOfWeek) / 7), and no two
\* dates share a position.
C3_TrueWeekdayLayout ==
    /\ pc \in {"week", "weekday", "pad"} =>
           firstDayOfWeek = TrueWeekday(year, month, 1)
    /\ \A c \in cells :
           /\ c.row = TrueWeekday(year, c.month, c.day)
           /\ c.col = 5 * c.month
                      + ((c.day - 1 + TrueWeekday(year, c.month, 1)) \div 7)
    /\ \A c, e \in cells :
           (c.col = e.col /\ c.row = e.row) => (c.month = e.month /\ c.day = e.day)

\* C4: every cell is filled with getColorByCount of the DateCount entry keyed
\* by its own zero-padded YYYY-MM-DD date, or of 0 when that key is absent,
\* so the scene depends only on the entries for dates of the rendered year.
C4_FillFromOwnDate ==
    FourDigitYear(year) =>
        \A c \in cells :
            /\ c.dateStr = IsoKey(year, c.month, c.day)
            /\ c.fill = getColorByCount(EntryOf(counts, IsoKey(year, c.month, c.day)))

\* C4 witness: a year whose mapping holds entries for its own dates and for
\* other keys has been rendered, and a cell took a non-zero count
C4_Witness ==
    /\ pc = "rendered"
    /\ FourDigitYear(year)
    /\ \E c \in cells : c.count = 2 /\ c.fill = colors[3]
    /\ \E k \in DOMAIN counts : \A c \in cells : c.dateStr # k

\* C9: isLeapYear is the Gregorian rule, and February has 29 days exactly
\* when it holds, 28 otherwise.
C9_LeapYearFebruary ==
    /\ isLeapYear(year) = GregorianLeap(year)
    /\ pc # "render" =>
           daysInMonth[2] = (IF GregorianLeap(year) THEN 29 ELSE 28)

\* C9 witness: a 400-year mark rendered with 29 February cells
C9_Witness ==
    /\ pc = "rendered"
    /\ year = 2000
    /\ daysInMonth[2] = 29
    /\ Cardinality(MonthCells(1)) = 29

\* C10: every day cell rectangle lies inside the svgWidth x svgHeight canvas
\* and inside the 1200 x 180 region captured as the screenshot.
C10_CellsInsideCanvasAndClip ==
    \A c \in cells :
        /\ c.x >= 0 /\ c.y >= 0
        /\ c.x + c.width <= svgWidth /\ c.y + c.height <= svgHeight
        /\ c.x + c.width <= ClipWidth /\ c.y + c.height <= ClipHeight

----------------------------------------------------------------------------
(* JavaScript values met by fetchCounts and main *)

Undefined == [type |-> "undefined"]
Null == [type |-> "null"]
Str(s) == [type |-> "string", str |-> s]
\* the object { start: v } of a Notion date property
DateObject(v) == [type |-> "object", start |-> v]

\* fault for C7: only undefined and null are taken as absent
TruthyNonNullish(v) == v.type \notin {"undefined", "null"}

\* ToBoolean of a value: undefined, null and the empty string are falsy
Truthy(v) ==
    CASE v.type = "undefined" -> FALSE
      [] v.type = "null" -> FALSE
      [] v.type = "string" -> Len(v.str) > 0
      [] OTHER -> TRUE

\* record.properties?.['新闻日期']?.date
DatePropOf(record) ==
    IF record.properties = "undefined" THEN Undefined
    ELSE IF record.dateProperty = "undefined" THEN Undefined
    ELSE record.date

\* dateProp?.start
StartOf(dateProp) ==
    IF dateProp.type \in {"undefined", "null"} THEN Undefined
    ELSE dateProp.start

\* counts[dateStr] = (counts[dateStr] || 0) + 1
Increment(c, dateStr) ==
    [k \in DOMAIN c \cup {dateStr} |->
        IF k = dateStr THEN CountOf(c, dateStr) + 1 ELSE c[k]]

\* fault for C6: the start value is used as the key without the split
CountRecordWholeStart(c, record) ==
    IF Truthy(StartOf(DatePropOf(record)))
    THEN Increment(c, StartOf(DatePropOf(record)).str)
    ELSE c

\* lines 44-48: the body of the for-of loop, applied to one record
CountRecord(c, record) ==
    LET dateProp == DatePropOf(record)
    IN  IF Truthy(StartOf(dateProp))
        THEN Increment(c, Split(StartOf(dateProp).str, "T")[1])
        ELSE c

----------------------------------------------------------------------------
(* Records a query can return *)

TimeUtc  == <<"T", "1", "0", ":", "0", "0", ":", "0", "0", "Z">>
TimeZone == <<"T", "2", "3", ":", "3", "0", "+", "0", "8", ":", "0", "0">>
TimeOnly == <<"T", "0", "9", ":", "0", "0">>

NoProperties    == [properties |-> "undefined", dateProperty |-> "undefined",
                    date |-> Undefined]
NoDateProperty  == [properties |-> "object", dateProperty |-> "undefined",
                    date |-> Undefined]
DateNull        == [properties |-> "object", dateProperty |-> "object",
                    date |-> Null]
WithStart(v)    == [properties |-> "object", dateProperty |-> "object",
                    date |-> DateObject(v)]

StartStrings == {<<>>, Key20240305, Key20240305 \o TimeUtc,
                 Key20240305 \o TimeZone, Key20241231, KeyGarbage, TimeOnly}

Records == {NoProperties, NoDateProperty, DateNull,
            WithStart(Undefined), WithStart(Null)}
           \cup {WithStart(Str(s)) : s \in StartStrings}

SeqsUpTo(S, n) == UNION {[1..k -> S] : k \in 0..n}

----------------------------------------------------------------------------
(* fetchCounts, lines 42-50: the aggregation loop *)

\* one iteration of for (const record of data.results)
AggStep ==
    /\ pc = "aggregate"
    /\ idx < Len(results)
    /\ counts' = CountRecord(counts, results[idx + 1])
    /\ idx' = idx + 1
    /\ UNCHANGED <<pc, results, renderVars, colorVars, mainVars>>

\* return counts
AggReturn ==
    /\ pc = "aggregate"
    /\ idx >= Len(results)
    /\ pc' = "aggregated"
    /\ UNCHANGED <<counts, aggVars, renderVars, colorVars, mainVars>>

\* the loop is entered with counts = {} over any sequence of records
InitAgg ==
    /\ pc = "aggregate"
    /\ results \in SeqsUpTo(Records, MaxRecords)
    /\ idx = 0
    /\ counts = EmptyCounts
    /\ year = 0
    /\ RenderIdle /\ ColorIdle /\ MainIdle

NextAgg ==
    \/ AggStep
    \/ AggReturn

SpecAgg == InitAgg /\ [][NextAgg]_vars

----------------------------------------------------------------------------
(* getColorByCount applied to a pair of counts *)

ColorInputs == (0..MaxCount) \cup {1000}

ApplyColor ==
    /\ pc = "color"
    /\ colorA' = getColorByCount(countA)
    /\ colorB' = getColorByCount(countB)
    /\ pc' = "colored"
    /\ UNCHANGED <<counts, countA, countB, renderVars, aggVars, mainVars>>

InitColor ==
    /\ pc = "color"
    /\ countA \in ColorInputs
    /\ countB \in ColorInputs
    /\ colorA = "" /\ colorB = ""
    /\ counts = EmptyCounts
    /\ year = 0
    /\ RenderIdle /\ AggIdle /\ MainIdle

NextColor == ApplyColor

SpecColor == InitColor /\ [][NextColor]_vars

----------------------------------------------------------------------------
(* main, lines 113-163 *)

\* values process.env can give a variable: unset, empty, set
EnvValues == {Undefined, Str(<<>>), Str(<<"s", "e", "t">>)}

\* new Date().getFullYear(): the years the system clock can show
ClockYears == {2024, 2026}

\* data.results of a successful query
MainResults ==
    SeqsUpTo({DateNull, WithStart(Str(Key20240101)),
              WithStart(Str(Key20241231 \o TimeUtc))}, 2)

\* the awaited steps after generateHeatmapSVG, in program order
BrowserSteps == <<"launch", "newPage", "setContent", "mkdir", "screenshot", "close">>

StepAfter(s) ==
    IF s = "close" THEN "logSuccess"
    ELSE BrowserSteps[(CHOOSE i \in 1..Len(BrowserSteps) : BrowserSteps[i] = s) + 1]

\* fault for C8: the check rejects only when both credentials are missing
CredentialsRejectedBoth(e) == ~Truthy(e.DATABASE_ID) /\ ~Truthy(e.NOTION_TOKEN)

\* !DB_ID || !TOKEN
CredentialsRejected(e) == ~Truthy(e.DATABASE_ID) \/ ~Truthy(e.NOTION_TOKEN)

\* lines 114-120: read the environment, throw when a credential is missing
CheckCredentials ==
    /\ pc = "main"
    /\ IF CredentialsRejected(env)
       THEN /\ failedStep' = "credentials"
            /\ pc' = "rejected"
            /\ log' = log
       ELSE /\ failedStep' = failedStep
            /\ pc' = "fetch"
            /\ log' = Append(log, "Fetching data from Notion...")
    /\ UNCHANGED <<counts, renderVars, aggVars, colorVars, env, fetchAttempts,
                   renderCalls, launchAttempts, screenshotAttempts,
                   imageWritten, exitStatus>>

\* lines 29-42: the query succeeds, res.ok holds and the body parses
FetchOk ==
    /\ pc = "fetch"
    /\ fetchAttempts' = fetchAttempts + 1
    /\ results' \in MainResults
    /\ idx' = 0
    /\ counts' = EmptyCounts
    /\ pc' = "aggregate"
    /\ UNCHANGED <<renderVars, colorVars, env, renderCalls, launchAttempts,
                   screenshotAttempts, imageWritten, failedStep, log, exitStatus>>

\* lines 29-40: fetch rejects, res.ok is false (line 39) or res.json rejects
FetchFail ==
    /\ pc = "fetch"
    /\ fetchAttempts' = fetchAttempts + 1
    /\ failedStep' \in {"fetch", "status", "json"}
    /\ pc' = "rejected"
    /\ UNCHANGED <<counts, renderVars, aggVars, colorVars, env, renderCalls,
                   launchAttempts, screenshotAttempts, imageWritten, log,
                   exitStatus>>

\* lines 122-125: total, year, the "Fetched ..." line
ReadClock ==
    /\ pc = "aggregated"
    /\ year' \in ClockYears
    /\ log' = Append(log, "Fetched records")
    /\ pc' = "callRender"
    /\ UNCHANGED <<counts, daysInMonth, svgWidth, svgHeight, globalColIndex,
                   month, firstDayOfWeek, weeksNeeded, actualWeeks, week,
                   weekday, pad, cells, labels, aggVars, colorVars, env,
                   fetchAttempts, renderCalls, launchAttempts,
                   screenshotAttempts, imageWritten, failedStep, exitStatus>>

\* line 127: generateHeatmapSVG(counts, year) is called
CallRender ==
    /\ pc = "callRender"
    /\ renderCalls' = renderCalls + 1
    /\ pc' = "render"
    /\ UNCHANGED <<counts, renderVars, aggVars, colorVars, env, fetchAttempts,
                   launchAttempts, screenshotAttempts, imageWritten,
                   failedStep, log, exitStatus>>

\* lines 128-139: the page is composed and the browser launch is awaited
EnterBrowser ==
    /\ pc = "rendered"
    /\ pc' = "launch"
    /\ UNCHANGED <<counts, renderVars, aggVars, colorVars, mainVars>>

\* lines 139-156: an awaited step resolves
BrowserStepOk ==
    /\ \E i \in 1..Len(BrowserSteps) : pc = BrowserSteps[i]
    /\ launchAttempts' = launchAttempts + (IF pc = "launch" THEN 1 ELSE 0)
    /\ screenshotAttempts' = screenshotAttempts + (IF pc = "screenshot" THEN 1 ELSE 0)
    /\ imageWritten' = (imageWritten \/ pc = "screenshot")
    /\ pc' = StepAfter(pc)
    /\ UNCHANGED <<counts, renderVars, aggVars, colorVars, env, fetchAttempts,
                   renderCalls, failedStep, log, exitStatus>>

\* lines 139-156: an awaited step rejects or throws
BrowserStepFail ==
    /\ \E i \in 1..Len(BrowserSteps) : pc = BrowserSteps[i]
    /\ launchAttempts' = launchAttempts + (IF pc = "launch" THEN 1 ELSE 0)
    /\ screenshotAttempts' = screenshotAttempts + (IF pc = "screenshot" THEN 1 ELSE 0)
    /\ failedStep' = pc
    /\ pc' = "rejected"
    /\ UNCHANGED <<counts, renderVars, aggVars, colorVars, env, fetchAttempts,
                   renderCalls, imageWritten, log, exitStatus>>

\* line 157: the success message, main's promise resolves
LogSuccess ==
    /\ pc = "logSuccess"
    /\ log' = Append(log, "Heatmap saved")
    /\ pc' = "resolved"
    /\ UNCHANGED <<counts, renderVars, aggVars, colorVars, env, fetchAttempts,
                   renderCalls, launchAttempts, screenshotAttempts,
                   imageWritten, failedStep, exitStatus>>

\* lines 160-163: the catch handler reports the error and exits with 1
Catch ==
    /\ pc = "rejected"
    /\ log' = Append(log, "Error")
    /\ exitStatus' = 1
    /\ pc' = "exited"
    /\ UNCHANGED <<counts, renderVars, aggVars, colorVars, env, fetchAttempts,
                   renderCalls, launchAttempts, screenshotAttempts,
                   imageWritten, failedStep>>

\* main resolved and nothing is pending: the process ends with status 0
ProcessEnd ==
    /\ pc = "resolved"
    /\ exitStatus' = 0
    /\ pc' = "exited"
    /\ UNCHANGED <<counts, renderVars, aggVars, colorVars, env, fetchAttempts,
                   renderCalls, launchAttempts, screenshotAttempts,
                   imageWritten, failedStep, log>>

InitMain ==
    /\ pc = "main"
    /\ env \in [DATABASE_ID : EnvValues, NOTION_TOKEN : EnvValues]
    /\ fetchAttempts = 0 /\ renderCalls = 0 /\ launchAttempts = 0
    /\ screenshotAttempts = 0 /\ imageWritten = FALSE /\ failedStep = ""
    /\ log = <<>> /\ exitStatus = 0 - 1
    /\ counts = EmptyCounts
    /\ year = 0
    /\ RenderIdle /\ AggIdle /\ ColorIdle

NextMain ==
    \/ CheckCredentials
    \/ FetchOk
    \/ FetchFail
    \/ AggStep
    \/ AggReturn
    \/ ReadClock
    \/ CallRender
    \/ RenderBegin
    \/ MonthBegin
    \/ WeekBegin
    \/ WeekdayStep
    \/ WeekEnd
    \/ WeeksDone
    \/ PadStep
    \/ PadDone
    \/ RenderReturn
    \/ EnterBrowser
    \/ BrowserStepOk
    \/ BrowserStepFail
    \/ LogSuccess
    \/ Catch
    \/ ProcessEnd

SpecMain == InitMain /\ [][NextMain]_vars

Spec == SpecMain

----------------------------------------------------------------------------
(* Properties of getColorByCount, checked under SpecColor *)

\* position of a colour in the palette, 0 = lightest
BucketIndex(color) == (CHOOSE i \in 1..Len(colors) : colors[i] = color) - 1

\* the bucket the thresholds 0, 1, 2-3, 4-6, >= 7 give a count
ThresholdBucket(count) ==
    CASE count = 0 -> 0
      [] count = 1 -> 1
      [] count \in 2..3 -> 2
      [] count \in 4..6 -> 3
      [] OTHER -> 4

\* C5: getColorByCount gives every count one of exactly 5 colours, by the
\* thresholds 0 / 1 / 2..3 / 4..6 / >= 7, and a <= b implies
\* bucket(a) <= bucket(b).
C5_BucketsMonotonic ==
    /\ Cardinality({colors[i] : i \in 1..Len(colors)}) = 5
    /\ pc = "colored" =>
        /\ \E i \in 1..5 : colors[i] = colorA
        /\ BucketIndex(colorA) = ThresholdBucket(countA)
        /\ BucketIndex(colorB) = ThresholdBucket(countB)
        /\ countA <= countB => BucketIndex(colorA) <= BucketIndex(colorB)

\* C5 witness: the two sides of the last threshold have been bucketed
C5_Witness ==
    /\ pc = "colored"
    /\ countA = 6 /\ countB = 7
    /\ colorA = colors[4] /\ colorB = colors[5]

----------------------------------------------------------------------------
(* Properties of the aggregation loop, checked under SpecAgg *)

\* the start string a record carries, when it carries a non-empty one
HasStart(r) ==
    /\ r.properties = "object"
    /\ r.dateProperty = "object"
    /\ r.date.type = "object"
    /\ r.date.start.type = "string"
    /\ r.date.start.str # <<>>

StartText(r) == r.date.start.str

\* s cut before its first "T": the longest prefix holding no "T"
TruncateAtT(s) ==
    LET n == CHOOSE k \in 0..Len(s) :
                 /\ \A i \in 1..k : s[i] # "T"
                 /\ k = Len(s) \/ s[k + 1] = "T"
    IN  SubSeq(s, 1, n)

RECURSIVE SumOver(_, _)
SumOver(f, S) == IF S = {} THEN 0
                 ELSE LET k == CHOOSE x \in S : TRUE
                      IN  f[k] + SumOver(f, S \ {k})

Total(c) == SumOver(c, DOMAIN c)

\* the records consumed so far that are counted under key k
CountedAs(k) == {j \in 1..idx : HasStart(results[j])
                                 /\ TruncateAtT(StartText(results[j])) = k}

\* the loop applied to a whole sequence
RECURSIVE Aggregate(_)
Aggregate(rs) == IF rs = <<>> THEN EmptyCounts
                 ELSE CountRecord(Aggregate(SubSeq(rs, 1, Len(rs) - 1)), rs[Len(rs)])

\* C6: each key holds the number of consumed records whose start, cut at the
\* first "T", is that key; the counts sum to the number of records not
\* skipped; and every reordering of the records gives the same mapping.
C6_CountsPerTruncatedDate ==
    /\ DOMAIN counts = {TruncateAtT(StartText(results[j])) :
                            j \in {i \in 1..idx : HasStart(results[i])}}
    /\ \A k \in DOMAIN counts : counts[k] = Cardinality(CountedAs(k))
    /\ Total(counts) = Cardinality({j \in 1..idx : HasStart(results[j])})
    /\ pc = "aggregated" =>
        \A p \in Permutations(1..Len(results)) :
            Aggregate([j \in 1..Len(results) |-> results[p[j]]]) = counts

\* C6 witness: a date-time and a date-only start of one day were merged
C6_Witness ==
    /\ pc = "aggregated"
    /\ Len(results) = 3
    /\ results[1] = WithStart(Str(Key20240305 \o TimeUtc))
    /\ results[2] = WithStart(Str(Key20241231))
    /\ results[3] = WithStart(Str(Key20240305))
    /\ counts = (Key20240305 :> 2 @@ Key20241231 :> 1)

\* an ISO-8601 date, alone or followed by "T" and a time
WellFormedStart(s) ==
    /\ Len(s) >= 10
    /\ \A i \in {1, 2, 3, 4, 6, 7, 9, 10} : \E d \in 1..10 : Digits[d] = s[i]
    /\ s[5] = "-" /\ s[8] = "-"
    /\ Len(s) > 10 => s[11] = "T"

\* a record without the date property, or with a malformed or absent start
MalformedOrAbsent(r) == ~HasStart(r) \/ ~WellFormedStart(StartText(r))

\* a record without the date property, with a null date, or with a start
\* that is undefined, null or the empty string
AbsentStart(r) ==
    \/ r.properties = "undefined"
    \/ r.dateProperty = "undefined"
    \/ r.date.type = "null"
    \/ r.date.start.type \in {"undefined", "null"}
    \/ (r.date.start.type = "string" /\ Len(r.date.start.str) = 0)

\* C7 as stated: a record without the date property, or with a malformed or
\* absent start, adds no key and increments no count.
C7_MalformedOrAbsentSkipped ==
    [][(pc = "aggregate" /\ idx < Len(results)
        /\ MalformedOrAbsent(results[idx + 1])) => counts' = counts]_vars

\* C7 amended: a record without the date property, with a null date, or with
\* an undefined, null or empty start adds no key and increments no count,
\* and a record with a well-formed start adds one to the key that is its
\* start before the first "T" and changes no other key. (A malformed
\* non-empty start is not filtered out: see the witness.)
C7_AbsentSkipped ==
    [][(pc = "aggregate" /\ idx < Len(results)) =>
        LET r == results[idx + 1]
        IN  /\ AbsentStart(r) => counts' = counts
            /\ (HasStart(r) /\ WellFormedStart(StartText(r))) =>
                LET k == TruncateAtT(StartText(r))
                IN  /\ DOMAIN counts' = DOMAIN counts \cup {k}
                    /\ counts'[k] = EntryOf(counts, k) + 1
                    /\ \A o \in DOMAIN counts \ {k} : counts'[o] = counts[o]]_vars

\* C7 witness: a record without a start was skipped between two counted
\* records, one of them malformed
C7_Witness ==
    /\ pc = "aggregated"
    /\ Len(results) = 3
    /\ results[1] = WithStart(Str(KeyGarbage))
    /\ AbsentStart(results[2])
    /\ results[3] = WithStart(Str(Key20240305))
    /\ counts = (KeyGarbage :> 1 @@ Key20240305 :> 1)

----------------------------------------------------------------------------
(* Properties of main, checked under SpecMain *)

\* a credential is missing: unset or empty
Missing(v) == v.type = "undefined" \/ (v.type = "string" /\ v.str = <<>>)

CredentialsMissing == Missing(env.DATABASE_ID) \/ Missing(env.NOTION_TOKEN)

InLog(line) == \E i \in 1..Len(log) : log[i] = line

\* C8: the credential check precedes every other step and each external
\* step is attempted at most once; with a credential missing nothing is
\* fetched, rendered or written and the exit status is non-zero; after a
\* failed step nothing more is attempted, the error is reported, the
\* success message is not printed and the exit status is 1.
C8_FatalErrorsNoRetry ==
    /\ fetchAttempts <= 1 /\ launchAttempts <= 1 /\ screenshotAttempts <= 1
    /\ renderCalls <= 1
    /\ CredentialsMissing =>
        /\ fetchAttempts = 0 /\ renderCalls = 0 /\ launchAttempts = 0
        /\ screenshotAttempts = 0 /\ ~imageWritten /\ cells = {}
        /\ pc \in {"main", "rejected", "exited"}
        /\ pc = "exited" => exitStatus # 0
    /\ failedStep # "" =>
        /\ pc \in {"rejected", "exited"}
        /\ ~InLog("Heatmap saved")
        /\ pc = "exited" => (exitStatus = 1 /\ log[Len(log)] = "Error")
    /\ (failedStep \in {"fetch", "status", "json"}) =>
        (renderCalls = 0 /\ launchAttempts = 0 /\ ~imageWritten)
    /\ InLog("Heatmap saved") => (failedStep = "" /\ imageWritten)
    /\ exitStatus = 0 => (failedStep = "" /\ InLog("Heatmap saved"))

\* C8 witness: the screenshot failed after one fetch and one launch, and the
\* process exited with status 1
C8_Witness ==
    /\ pc = "exited"
    /\ failedStep = "screenshot"
    /\ fetchAttempts = 1 /\ launchAttempts = 1 /\ screenshotAttempts = 1
    /\ exitStatus = 1
    /\ ~imageWritten

====
